---- MODULE Spec2Model ----
(***************************************************************************)
(* Model of src/src/index.ts: the Broadlink RM client.                     *)
(*                                                                         *)
(*   Device     one session per appliance: key, iv, id, count, a UDP       *)
(*              socket whose 'message' handler decodes responses, and the  *)
(*              command methods that build frames with sendPacket.         *)
(*   Broadlink  discovery sockets and the registry `devices`, keyed by     *)
(*              the hex string of the MAC address.                         *)
(*                                                                         *)
(* Buffers are sequences of bytes (0..255); offset o of the source is      *)
(* element o + 1 here.  AES-128 itself is a library primitive: it is       *)
(* represented by a keyed permutation of 16-byte blocks (EncBlock /        *)
(* DecBlock); the CBC chaining and the update()/final() behaviour of the   *)
(* cipher objects are modelled as the library performs them.               *)
(*                                                                         *)
(* Exceptions: a handler that raises is recorded with the name of the      *)
(* exception in last.thrown, and keeps the assignments it made before.     *)
(* Once a session exists the registry and the session share no state, so   *)
(* the properties are checked on SpecDiscovery (discovery sockets and      *)
(* presence packets), SpecBroadlink (registry and discovery responses) and *)
(* SpecDevice (one registered session); Spec is their composition.         *)
(***************************************************************************)
EXTENDS Integers, Sequences, FiniteSets, TLC

(***************************************************************************)
(* Bounds of the model.                                                    *)
(***************************************************************************)
MaxSends == 2        \* command calls made on the sessions
MaxRecv == 2         \* datagrams delivered to the session sockets
MaxDiscover == 2     \* discover() calls

(***************************************************************************)
(* Byte and Buffer helpers.                                                *)
(***************************************************************************)
Undef == -1          \* JavaScript `undefined` for a numeric value

Min(a, b) == IF a < b THEN a ELSE b
Max(a, b) == IF a > b THEN a ELSE b

\* Buffer.alloc(n, 0)
Alloc(n) == [i \in 1..n |-> 0]

\* buf[o]: the byte at offset o, undefined past the end
At(buf, o) == IF o < Len(buf) THEN buf[o + 1] ELSE Undef

\* x | (y << 8) on two bytes read from a buffer; undefined coerces to 0
Or8(x, y) == (IF x = Undef THEN 0 ELSE x) + 256 * (IF y = Undef THEN 0 ELSE y)

\* buf[o] = v on a Buffer (the stored value is v & 0xff)
Put(buf, o, v) == [buf EXCEPT ![o + 1] = v % 256]

\* bitwise exclusive or of two bytes
RECURSIVE XorBits(_, _)
XorBits(a, b) ==
    IF a = 0 THEN b
    ELSE IF b = 0 THEN a
    ELSE (((a % 2) + (b % 2)) % 2) + 2 * XorBits(a \div 2, b \div 2)

XorTable == [a \in 0..255 |-> [b \in 0..255 |-> XorBits(a, b)]]

Xor(a, b) == XorTable[a][b]

\* Buffer.prototype.copy raises ERR_OUT_OF_RANGE when sourceStart lies
\* beyond the end of the source
CopyOutOfRange(source, sourceStart) == sourceStart > Len(source)

\* source.copy(target, targetStart, sourceStart, sourceEnd): the target
\* after the copy (the byte count is clamped to both buffers)
BufferCopy(source, target, targetStart, sourceStart, sourceEnd) ==
    LET nb == Min(Min(sourceEnd - sourceStart, Len(target) - targetStart),
                  Len(source) - sourceStart)
    IN  IF targetStart >= Len(target) \/ sourceStart >= sourceEnd \/ nb <= 0
        THEN target
        ELSE [i \in 1..Len(target) |->
                 IF i > targetStart /\ i <= targetStart + nb
                 THEN source[sourceStart + (i - targetStart)]
                 ELSE target[i]]

\* buf.toString('hex'): two hex digits per byte, as a sequence of digits
ToHex(buf) ==
    [i \in 1..(2 * Len(buf)) |->
        IF i % 2 = 1 THEN buf[(i + 1) \div 2] \div 16 ELSE buf[i \div 2] % 16]

\* the sum of bytes lo..hi of buf (by halves, to keep the evaluation shallow)
RECURSIVE SumBytes(_, _, _)
SumBytes(buf, lo, hi) ==
    IF lo > hi THEN 0
    ELSE IF lo = hi THEN buf[lo]
    ELSE LET mid == (lo + hi) \div 2
         IN  SumBytes(buf, lo, mid) + SumBytes(buf, mid + 1, hi)

(***************************************************************************)
(* The cipher objects of the crypto library (aes-128-cbc).                 *)
(***************************************************************************)
BlockSize == 16

EncBlock(k, x) == [i \in 1..BlockSize |-> (x[(i % BlockSize) + 1] + k[i]) % 256]

DecBlock(k, y) ==
    [j \in 1..BlockSize |->
        LET i == IF j = 1 THEN BlockSize ELSE j - 1
        IN  (y[i] + 256 - k[i]) % 256]

XorBlock(a, b) == [i \in 1..BlockSize |-> Xor(a[i], b[i])]

\* cipher.update(data) with no cipher.final(): the encryption of the whole
\* blocks of data; a trailing partial block stays inside the cipher object
RECURSIVE CipherUpdate(_, _, _)
CipherUpdate(key, prev, data) ==
    IF Len(data) < BlockSize THEN << >>
    ELSE LET c == EncBlock(key, XorBlock(SubSeq(data, 1, BlockSize), prev))
         IN  c \o CipherUpdate(key, c, SubSeq(data, BlockSize + 1, Len(data)))

\* decipher.update(data) after setAutoPadding(false): every whole block
RECURSIVE DecipherUpdate(_, _, _)
DecipherUpdate(key, prev, data) ==
    IF Len(data) < BlockSize THEN << >>
    ELSE LET c == SubSeq(data, 1, BlockSize)
         IN  XorBlock(DecBlock(key, c), prev)
                 \o DecipherUpdate(key, c, SubSeq(data, BlockSize + 1, Len(data)))

\* decipher.final() after setAutoPadding(false) raises "wrong final block
\* length" when the data was not a whole number of blocks
DecipherFinalThrows(data) == Len(data) % BlockSize /= 0

(***************************************************************************)
(* Device type tables.                                                     *)
(***************************************************************************)
\* parseInt(String(n), 16): the decimal digits of n read as hexadecimal
RECURSIVE ParseIntHex(_)
ParseIntHex(n) == IF n < 10 THEN n ELSE (n % 10) + 16 * ParseIntHex(n \div 10)

\* The table built by `t[parseInt(String(code), 16)] = label` for each
\* <<code, label>> of entries
MkTable(entries) ==
    [k \in {ParseIntHex(entries[i][1]) : i \in 1..Len(entries)} |->
        LET i == CHOOSE j \in 1..Len(entries) :
                    /\ ParseIntHex(entries[j][1]) = k
                    /\ \A l \in (j + 1)..Len(entries) : ParseIntHex(entries[l][1]) /= k
        IN  entries[i][2]]

\* t[deviceType]: the label, or "" (falsy) when the key is absent
Lookup(t, deviceType) == IF deviceType \in DOMAIN t THEN t[deviceType] ELSE ""

rmDeviceTypeEntries ==
            << <<10039, "Broadlink RM Mini">>,           \* 0x2737
               <<10183, "Broadlink RM Mini 3 A">>,       \* 0x27c7
               <<10178, "Broadlink RM Mini 3 B">>,       \* 0x27c2
               <<10206, "Broadlink RM Mini 3 C">>,       \* 0x27de
               <<24374, "Broadlink RM Mini 3 D">>,       \* 0x5f36
               <<10045, "Broadlink RM Pro Phicomm">>,    \* 0x273d
               <<10002, "Broadlink RM2">>,               \* 0x2712
               <<10115, "Broadlink RM2 Home Plus">>,     \* 0x2783
               <<10108, "Broadlink RM2 Home Plus GDT">>, \* 0x277c
               <<10127, "Broadlink RM Mini Shate">> >>   \* 0x278f

rmDeviceTypes == MkTable(rmDeviceTypeEntries)

rmPlusDeviceTypeEntries ==
            << <<10026, "Broadlink RM2 Pro Plus">>,      \* 0x272a
               <<10119, "Broadlink RM2 Pro Plus v2">>,   \* 0x2787
               <<10123, "Broadlink RM2 Pro Plus BL">>,   \* 0x278b
               <<10135, "Broadlink RM2 Pro Plus HYC">>,  \* 0x2797
               <<10145, "Broadlink RM2 Pro Plus R1">>,   \* 0x27a1
               <<10150, "Broadlink RM2 Pro PP">>,        \* 0x27a6
               <<10141, "Broadlink RM3 Pro Plus">>,      \* 0x279d
               <<10153, "Broadlink RM3 Pro Plus v2">>,   \* 0x27a9
               <<10179, "Broadlink RM3 Pro">> >>         \* 0x27c3

rmPlusDeviceTypes == MkTable(rmPlusDeviceTypeEntries)

unsupportedDeviceTypeEntries ==
            << <<0, "Broadlink SP1">>,
               <<10001, "Broadlink SP2">>,               \* 0x2711
               <<10009, "Honeywell SP2">>,               \* 0x2719
               <<31001, "Honeywell SP2">>,               \* 0x7919
               <<10010, "Honeywell SP2">>,               \* 0x271a
               <<31002, "Honeywell SP2">>,               \* 0x791a
               <<10035, "OEM Branded SP Mini">>,         \* 0x2733
               <<10046, "OEM Branded SP Mini">>,         \* 0x273e
               <<10016, "Broadlink SP Mini">>,           \* 0x2720
               <<32007, "Broadlink SP Mini">>,           \* 0x7d07
               <<30014, "Broadlink SP 3">>,              \* 0x753e
               <<10024, "Broadlink SPMini 2">>,          \* 0x2728
               <<10038, "Broadlink SPMini Plus">>,       \* 0x2736
               <<10004, "Broadlink A1">>,                \* 0x2714
               <<20149, "Broadlink MP1">>,               \* 0x4eb5
               <<10018, "Broadlink S1 (SmartOne Alarm Kit)">>,  \* 0x2722
               <<20045, "Dooya DT360E (DOOYA_CURTAIN_V2) or Hysen Heating Controller">>, \* 0x4e4d
               <<20141, "Dooya DT360E (DOOYA_CURTAIN_V2) or Hysen Heating Controller">>, \* 0x4ead
               <<38010, "BroadLink Outlet">> >>          \* 0x947a

unsupportedDeviceTypes == MkTable(unsupportedDeviceTypeEntries)

(***************************************************************************)
(* Device: construction.                                                   *)
(***************************************************************************)
DefaultKey == <<9, 118, 40, 52, 63, 233, 158, 35, 118, 92, 21, 19, 172, 207, 139, 2>>

DefaultIV == <<86, 46, 23, 153, 109, 9, 61, 40, 221, 179, 186, 105, 90, 46, 111, 88>>

\* Boolean(rmPlusDeviceTypes[deviceType])
isRFSupported(deviceType) == Lookup(rmPlusDeviceTypes, deviceType) /= ""

\* new Device(host, macAddress, deviceType), with count0 the value drawn by
\* Math.floor(Math.random() * 0xffff) & 0xffff.  rf tells whether
\* addRFSupport() installed enterRFSweep, checkRFData and checkRFData2.
NewDevice(host, macAddress, deviceType, count0) ==
    [ host  |-> host,
      mac   |-> macAddress,
      type  |-> deviceType,
      model |-> IF Lookup(rmDeviceTypes, deviceType) /= ""
                THEN Lookup(rmDeviceTypes, deviceType)
                ELSE Lookup(rmPlusDeviceTypes, deviceType),
      count |-> count0,
      key   |-> DefaultKey,
      iv    |-> DefaultIV,
      id    |-> <<0, 0, 0, 0>>,
      rf    |-> isRFSupported(deviceType) ]

(***************************************************************************)
(* Device: the 'message' handler of the session socket.                    *)
(***************************************************************************)
\* What one run of a handler did: the session afterwards, the events it
\* emitted, the exception it raised ("" when it returned), whether a
\* decipher was created, and the decrypted payload.
Outcome(d, emitted, thrown, decrypted, payload) ==
    [ dev |-> d, emitted |-> emitted, thrown |-> thrown,
      decrypted |-> decrypted, payload |-> payload ]

Event(name, arg) == [ name |-> name, arg |-> arg ]

\* onPayloadReceived without the test of the status byte in cases 26 and 27
onPayloadReceivedAnyStatus(payload) ==
    LET param == At(payload, 0)
    IN  CASE param = 1 ->
               << Event("temperature", << At(payload, 4) * 10 + At(payload, 5), 10 >>) >>
          [] param = 4 ->
               << Event("rawData",
                        BufferCopy(payload, Alloc(Len(payload) - 4), 0, 4, Len(payload))) >>
          [] param = 26 ->
               << Event("rawRFData", BufferCopy(payload, Alloc(1), 0, 4, Len(payload))) >>
          [] param = 27 ->
               << Event("rawRFData2", BufferCopy(payload, Alloc(1), 0, 4, Len(payload))) >>
          [] OTHER -> << >>

\* onPayloadReceived(err, payload): the events emitted
onPayloadReceived(payload) ==
    LET param == At(payload, 0)
    IN  CASE param = 1 ->
               \* the temperature is (payload[4] * 10 + payload[5]) / 10.0,
               \* carried here as <<numerator, 10>>
               << Event("temperature", << At(payload, 4) * 10 + At(payload, 5), 10 >>) >>
          [] param = 4 ->
               << Event("rawData",
                        BufferCopy(payload, Alloc(Len(payload) - 4), 0, 4, Len(payload))) >>
          [] param = 26 ->
               LET data == BufferCopy(payload, Alloc(1), 0, 4, Len(payload))
               IN  IF data[1] /= 1 THEN << >> ELSE << Event("rawRFData", data) >>
          [] param = 27 ->
               LET data == BufferCopy(payload, Alloc(1), 0, 4, Len(payload))
               IN  IF data[1] /= 1 THEN << >> ELSE << Event("rawRFData2", data) >>
          [] OTHER -> << >>

\* HandshakeResponse with the two fields read from each other's place
HandshakeResponseSwapped(d, payload) ==
    IF CopyOutOfRange(payload, 4)
    THEN Outcome([d EXCEPT !.key = Alloc(16)], << >>, "ERR_OUT_OF_RANGE", TRUE, payload)
    ELSE Outcome([d EXCEPT !.key = BufferCopy(payload, Alloc(16), 0, 0, 16),
                           !.id  = BufferCopy(payload, Alloc(4), 0, 16, 20)],
                 << Event("deviceReady", << >>) >>, "", TRUE, payload)

\* command === 0xe9: the key is replaced by a fresh buffer before the
\* payload is copied into it, so an exception of the first copy leaves the
\* key zeroed
HandshakeResponse(d, payload) ==
    LET d1 == [d EXCEPT !.key = Alloc(16)]
    IN  IF CopyOutOfRange(payload, 4)
        THEN Outcome(d1, << >>, "ERR_OUT_OF_RANGE", TRUE, payload)
        ELSE Outcome([d1 EXCEPT !.key = BufferCopy(payload, Alloc(16), 0, 4, 20),
                                !.id  = BufferCopy(payload, Alloc(4), 0, 0, 4)],
                     << Event("deviceReady", << >>) >>, "", TRUE, payload)

\* EncryptedPayloadOf with the body taken from offset 0x30
EncryptedPayloadOfShifted(response) ==
    BufferCopy(response, Alloc(Max(0, Len(response) - 56)), 0, 48, Len(response))

\* const encryptedPayload = Buffer.alloc(Math.max(0, response.length - 0x38));
\* response.copy(encryptedPayload, 0, 0x38)
EncryptedPayloadOf(response) ==
    BufferCopy(response, Alloc(Max(0, Len(response) - 56)), 0, 56, Len(response))

\* DecryptAndDispatch taking every command byte for a handshake response
DecryptAndDispatchAsHandshake(d, response) ==
    LET encryptedPayload == EncryptedPayloadOf(response)
    IN  IF DecipherFinalThrows(encryptedPayload)
        THEN Outcome(d, << >>, "wrong final block length", TRUE, << >>)
        ELSE HandshakeResponse(d, DecipherUpdate(d.key, d.iv, encryptedPayload))

\* From createDecipheriv on: decrypt the body and dispatch on response[0x26]
\* (`if (!payload) return` never returns: a Buffer is truthy, empty or not)
DecryptAndDispatch(d, response) ==
    LET encryptedPayload == EncryptedPayloadOf(response)
    IN  IF DecipherFinalThrows(encryptedPayload)
        THEN Outcome(d, << >>, "wrong final block length", TRUE, << >>)
        ELSE
          LET payload == DecipherUpdate(d.key, d.iv, encryptedPayload)
              command == At(response, 38)
          IN  IF command = 233 THEN HandshakeResponse(d, payload)
              ELSE IF command = 238 \/ command = 239
              THEN Outcome(d, onPayloadReceived(payload), "", TRUE, payload)
              ELSE Outcome(d, << >>, "", TRUE, payload)

\* DecodeResponse without the test of the error code
DecodeResponseIgnoringErr(d, response) == DecryptAndDispatch(d, response)

\* const err = response[0x22] | (response[0x23] << 8); if (err !== 0) return;
DecodeResponse(d, response) ==
    LET err == Or8(At(response, 34), At(response, 35))
    IN  IF err /= 0 THEN Outcome(d, << >>, "", FALSE, << >>)
        ELSE DecryptAndDispatch(d, response)

\* HandleMessage whose copy of the body tolerates a short datagram
HandleMessageAnyLength(d, response) == DecodeResponse(d, response)

\* socket.on('message', (response) => ...): the copy of the body raises
\* ERR_OUT_OF_RANGE on a datagram shorter than 0x38 bytes
HandleMessage(d, response) ==
    IF CopyOutOfRange(response, 56)
    THEN Outcome(d, << >>, "ERR_OUT_OF_RANGE", FALSE, << >>)
    ELSE DecodeResponse(d, response)

(***************************************************************************)
(* Device: outgoing frames.                                                *)
(***************************************************************************)
\* Checksum without its seed
ChecksumUnseeded(buf) == SumBytes(buf, 1, Len(buf)) % 65536

\* The additive checksum: 0xbeaf plus the bytes, modulo 0x10000
Checksum(buf) == (48815 + SumBytes(buf, 1, Len(buf))) % 65536

\* NextCount without the mask
NextCountUnmasked(count) == count + 1

\* this.count = (this.count + 1) & 0xffff
NextCount(count) == (count + 1) % 65536

\* sendPacket(command, payload): the session afterwards and the datagram
\* handed to socket.send (with the arguments of the call)
sendPacket(d, command, payload) ==
    LET count == NextCount(d.count)
        p0 == [i \in 1..56 |->
                 CASE i - 1 \in {0, 4}  -> 90
                   [] i - 1 \in {1, 5}  -> 165
                   [] i - 1 \in {2, 6}  -> 170
                   [] i - 1 \in {3, 7}  -> 85
                   [] i - 1 = 36 -> 42
                   [] i - 1 = 37 -> 39
                   [] i - 1 = 38 -> command % 256
                   [] i - 1 = 40 -> count % 256
                   [] i - 1 = 41 -> count \div 256
                   [] i - 1 \in 42..47 -> d.mac[48 - i + 1]
                   [] i - 1 \in 48..51 -> d.id[i - 48]
                   [] OTHER -> 0]
        checksum == Checksum(payload)
        encrypted == CipherUpdate(d.key, d.iv, payload)
        p1 == Put(Put(p0, 52, checksum % 256), 53, checksum \div 256) \o encrypted
        checksum2 == Checksum(p1)
        packet == Put(Put(p1, 32, checksum2 % 256), 33, checksum2 \div 256)
    IN  [ dev |-> [d EXCEPT !.count = count], packet |-> packet,
          command |-> command, plain |-> payload ]

\* The payload authenticate() builds
AuthPayload ==
    [i \in 1..80 |->
        CASE i - 1 \in 4..18 -> 49
          [] i - 1 = 30 -> 1
          [] i - 1 = 45 -> 1
          [] i - 1 = 48 -> 84
          [] i - 1 = 49 -> 101
          [] i - 1 = 50 -> 115
          [] i - 1 = 51 -> 116
          [] i - 1 = 52 -> 32
          [] i - 1 = 53 -> 32
          [] i - 1 = 54 -> 49
          [] OTHER -> 0]

authenticate(d) == sendPacket(d, 101, AuthPayload)

\* Buffer.alloc(16, 0) with packet[0] = b: checkData (4), enterLearning (3),
\* checkTemperature (1), cancelLearn (0x1e), and the RF operations
\* enterRFSweep (0x19), checkRFData (0x1a), checkRFData2 (0x1b)
SubOp(b) == Put(Alloc(16), 0, b)

checkData(d) == sendPacket(d, 106, SubOp(4))
enterLearning(d) == sendPacket(d, 106, SubOp(3))
checkTemperature(d) == sendPacket(d, 106, SubOp(1))
cancelLearn(d) == sendPacket(d, 106, SubOp(30))
sendData(d, data) == sendPacket(d, 106, <<2, 0, 0, 0>> \o data)
enterRFSweep(d) == sendPacket(d, 106, SubOp(25))
checkRFData(d) == sendPacket(d, 106, SubOp(26))
checkRFData2(d) == sendPacket(d, 106, SubOp(27))

(***************************************************************************)
(* Inputs.                                                                 *)
(***************************************************************************)
MacA == <<52, 234, 52, 1, 2, 3>>
MacB == <<120, 15, 119, 250, 0, 16>>

\* rinfo of a discovery response, or the host descriptor given by a caller;
\* a missing port is Undef, a missing address is ""
Hosts == { [address |-> "192.168.1.32", port |-> 80] }
BadHosts == { [address |-> "", port |-> 80], [address |-> "192.168.1.32", port |-> Undef] }

\* device types a discovery response carries in bytes 0x34-0x35:
\* 0x2737, 0x272a, 0x2711, 0, 0x7530, 0x7918 and the unlisted 0x1234
DiscoveredTypes == {10039, 10026, 10001, 0, 30000, 31000, 4660}

\* device types a caller passes to addDevice: the above, a missing type,
\* and the keys 0x10039, 0x10026, 0x10001 that the tables really hold
CallerTypes == DiscoveredTypes \cup {Undef, 65593, 65574, 65537}

\* values of Math.floor(Math.random() * 0xffff) & 0xffff
InitCounts == {4660, 65534}

\* A discovery response of length len from mac with device type t
DiscoveryResponse(len, mac, t) ==
    [i \in 1..len |->
        CASE i - 1 = 52 -> t % 256
          [] i - 1 = 53 -> t \div 256
          [] i - 1 = 61 -> mac[1]
          [] i - 1 = 62 -> mac[2]
          [] i - 1 = 63 -> mac[3]
          [] i - 1 = 60 -> mac[4]
          [] i - 1 = 59 -> mac[5]
          [] i - 1 = 58 -> mac[6]
          [] OTHER -> 0]

DiscoveryMessages ==
    { DiscoveryResponse(128, mac, t) : mac \in {MacA, MacB}, t \in DiscoveredTypes }
        \cup { DiscoveryResponse(64, MacB, 10039), DiscoveryResponse(62, MacA, 10039),
               Alloc(0) }

\* Decrypted payloads an appliance answers with
KeyA == [i \in 1..16 |-> 160 + i]
KeyB == [i \in 1..16 |-> 16 * i - 1]
HandshakePayload(id, key) == id \o key \o Alloc(12)
TemperaturePayload == <<1, 0, 0, 0, 21, 5>> \o Alloc(10)
RawDataPayload == <<4, 0, 0, 0, 38, 0, 26, 0>> \o Alloc(8)
StatusPayload(param, status) == <<param, 0, 0, 0, status>> \o Alloc(11)

ResponsePayloads ==
    { << >>,
      HandshakePayload(<<1, 0, 0, 0>>, KeyA),
      HandshakePayload(<<2, 0, 0, 128>>, KeyB),
      SubSeq(HandshakePayload(<<3, 0, 0, 0>>, KeyA), 1, 16),
      TemperaturePayload, RawDataPayload,
      StatusPayload(26, 1), StatusPayload(26, 0),
      StatusPayload(27, 1), StatusPayload(27, 0),
      StatusPayload(9, 1) }

\* A response datagram: header with error code err and command byte, body
ResponseFrame(err, command, body) ==
    [i \in 1..56 |->
        CASE i - 1 = 34 -> err % 256
          [] i - 1 = 35 -> err \div 256
          [] i - 1 = 38 -> command
          [] OTHER -> 0] \o body

\* The datagrams delivered to the socket of session d: well-formed responses
\* encrypted under the session's current key, responses with an error code,
\* bodies that are not whole blocks, and datagrams shorter than the header
Responses(d) ==
    LET enc(p) == CipherUpdate(d.key, d.iv, p)
        hs == HandshakePayload(<<1, 0, 0, 0>>, KeyA)
    IN  { ResponseFrame(0, 238, enc(p)) : p \in ResponsePayloads }
        \cup { ResponseFrame(0, 233, enc(p)) :
                 p \in { q \in ResponsePayloads : Len(q) = 0 \/ q[1] \in {1, 2, 3} } }
        \cup { ResponseFrame(0, 239, enc(p)) :
                 p \in { TemperaturePayload, StatusPayload(26, 1) } }
        \cup { ResponseFrame(0, 7, enc(hs)),
               ResponseFrame(0, 233, <<1, 2, 3, 4, 5>>),
               ResponseFrame(0, 238, Alloc(17)),
               ResponseFrame(0, 233, enc(hs) \o <<9>>),
               ResponseFrame(1, 233, enc(hs)),
               ResponseFrame(256, 233, enc(hs)),
               ResponseFrame(65535, 238, enc(TemperaturePayload)),
               Alloc(0), Put(Alloc(55), 38, 233), [i \in 1..55 |-> 233],
               [i \in 1..36 |-> 1] }

\* code buffers a caller passes to sendData
CodeData == { << >>, [i \in 1..12 |-> i], [i \in 1..70 |-> 250] }

\* The arguments of the addDevice calls an application makes
CallerInputs ==
    { [host |-> h, macGiven |-> TRUE, deviceType |-> t, count0 |-> c] :
        h \in Hosts, t \in CallerTypes, c \in InitCounts }
      \cup { [host |-> h, macGiven |-> TRUE, deviceType |-> t, count0 |-> 4660] :
               h \in BadHosts, t \in {65593, 10001} }
      \cup { [host |-> h, macGiven |-> FALSE, deviceType |-> t, count0 |-> 4660] :
               h \in Hosts, t \in {65593, Undef} }

\* os.networkInterfaces(), flattened to the addresses it lists
InterfaceConfigs ==
    { << [address |-> "127.0.0.1", family |-> "IPv4", internal |-> TRUE],
         [address |-> "192.168.1.10", family |-> "IPv4", internal |-> FALSE] >>,
      << [address |-> "127.0.0.1", family |-> "IPv4", internal |-> TRUE],
         [address |-> "fe80::1", family |-> "IPv6", internal |-> FALSE],
         [address |-> "192.168.1.10", family |-> "IPv4", internal |-> FALSE],
         [address |-> "10.0.0.5", family |-> "IPv4", internal |-> FALSE] >>,
      << [address |-> "127.0.0.1", family |-> "IPv4", internal |-> TRUE] >> }

\* ipAddress.split('.') with parseInt on each part, for the addresses above
SplitIP(ipAddress) ==
    CASE ipAddress = "192.168.1.10" -> <<192, 168, 1, 10>>
      [] ipAddress = "10.0.0.5" -> <<10, 0, 0, 5>>
      [] ipAddress = "127.0.0.1" -> <<127, 0, 0, 1>>

\* socket.address().port: the ports the system may have bound a socket to
Ports == {1024, 54321}

\* new Date(): getTimezoneOffset() is in minutes, positive west of UTC
\* (-120 at UTC+2, 300 at UTC-5, -330 at UTC+5:30); day is getDay(), date
\* is getDate(), month is getMonth()
Clocks ==
    { [ offset |-> o, year |-> 2025, minutes |-> 59, hours |-> 23, day |-> 3,
        date |-> 31, month |-> 11 ] : o \in {-120, 300, 0, -330} }

(***************************************************************************)
(* State.                                                                  *)
(***************************************************************************)
VARIABLES
    devices,       \* Broadlink.devices: hex MAC -> "Not Supported" or "Device"
    session,       \* the Device object behind each "Device" entry
    sockets,       \* Broadlink.sockets: the discovery sockets of the last discover()
    closed,        \* discovery sockets on which close() was called
    socketIp,      \* the address each created discovery socket was bound to
    listening,     \* discovery sockets whose 'listening' event was handled
    constructed,   \* hex MAC -> number of Device objects constructed for it
    handshakes,    \* hex MAC -> number of authenticate() calls made by addDevice
    nsend,         \* command calls made so far
    nrecv,         \* datagrams delivered to session sockets so far
    ndiscover,     \* discover() calls so far
    last           \* what the last operation was given and what it did

vars == << devices, session, sockets, closed, socketIp, listening, constructed, handshakes,
           nsend, nrecv, ndiscover, last >>

\* No clock was read
NoClock == [ offset |-> 0, year |-> 0, minutes |-> 0, hours |-> 0, day |-> 0,
             date |-> 0, month |-> 0 ]

NullDevice == NewDevice([address |-> "", port |-> Undef], << >>, Undef, 0)

\* The record kept of one operation
NoSend == [ packet |-> << >>, command |-> Undef, plain |-> << >> ]

\* The record kept of one operation: op on the MAC key (known tells whether
\* the registry held it before), given input and device type, run on the
\* session `before`; o is what the handler did and sent the frame it sent
\* (host and macGiven are the other arguments of an addDevice call, registry
\* is Broadlink.devices before the operation, now the clock onListening
\* read, dup tells that the datagram is a second delivery of the last one)
Did(op, key, input, type, before, o, sent) ==
    [ op |-> op, key |-> key, known |-> key \in DOMAIN devices,
      input |-> input, type |-> type, before |-> before,
      host |-> NullDevice.host, macGiven |-> TRUE, registry |-> devices,
      now |-> NoClock, dup |-> FALSE,
      emitted |-> o.emitted, thrown |-> o.thrown, decrypted |-> o.decrypted,
      payload |-> o.payload,
      packet |-> sent.packet, command |-> sent.command, plain |-> sent.plain ]

Returned == Outcome(NullDevice, << >>, "", FALSE, << >>)
Threw(e) == Outcome(NullDevice, << >>, e, FALSE, << >>)

Count(f, k) == IF k \in DOMAIN f THEN f[k] ELSE 0
Bump(f, k) == [x \in DOMAIN f \cup {k} |-> IF x = k THEN Count(f, k) + 1 ELSE f[x]]
Store(f, k, v) == [x \in DOMAIN f \cup {k} |-> IF x = k THEN v ELSE f[x]]

Init ==
    /\ devices = << >>
    /\ session = << >>
    /\ sockets = << >>
    /\ closed = {}
    /\ socketIp = << >>
    /\ listening = {}
    /\ constructed = << >>
    /\ handshakes = << >>
    /\ nsend = 0
    /\ nrecv = 0
    /\ ndiscover = 0
    /\ last = Did("init", << >>, << >>, Undef, NullDevice, Returned, NoSend)

(***************************************************************************)
(* Broadlink: discovery.                                                   *)
(***************************************************************************)
\* getIPAddresses without the test of `internal`
getIPAddressesWithInternal(interfaces) ==
    LET keep(a) == a.family = "IPv4"
    IN  [i \in 1..Cardinality({j \in 1..Len(interfaces) : keep(interfaces[j])}) |->
            LET j == CHOOSE j \in 1..Len(interfaces) :
                        /\ keep(interfaces[j])
                        /\ Cardinality({l \in 1..j : keep(interfaces[l])}) = i
            IN  interfaces[j].address]

\* getIPAddresses(): the non-internal IPv4 addresses, in order
getIPAddresses(interfaces) ==
    LET keep(a) == a.family = "IPv4" /\ ~a.internal
    IN  [i \in 1..Cardinality({j \in 1..Len(interfaces) : keep(interfaces[j])}) |->
            LET j == CHOOSE j \in 1..Len(interfaces) :
                        /\ keep(interfaces[j])
                        /\ Cardinality({l \in 1..j : keep(interfaces[l])}) = i
            IN  interfaces[j].address]

\* discover(): close the sockets of the previous run, then create and bind
\* one socket per address
discover(interfaces) ==
    LET ipAddresses == getIPAddresses(interfaces)
        created == Len(socketIp)
    IN  /\ ndiscover < MaxDiscover
        /\ ndiscover' = ndiscover + 1
        /\ closed' = closed \cup {sockets[i] : i \in 1..Len(sockets)}
        /\ sockets' = [i \in 1..Len(ipAddresses) |-> created + i]
        /\ socketIp' = socketIp \o ipAddresses
        /\ last' = Did("discover", << >>, interfaces, Undef, NullDevice, Returned, NoSend)
        /\ UNCHANGED << devices, session, listening, constructed, handshakes, nsend, nrecv >>

\* Storing the number num/den (den > 0) into a Buffer byte: the fraction is
\* dropped, the integer is taken modulo 256
ToUint8(num, den) ==
    (IF num >= 0 THEN num \div den ELSE -((-num) \div den)) % 256

\* The presence packet of onListening: timezone, date and time, the local
\* address and port, the marker 6 and the checksum
PresencePacket(ipAddress, port, now) ==
    LET \* timezone = now.getTimezoneOffset() / -3600, as the fraction tzNum/3600
        tzNum == -now.offset
        address == SplitIP(ipAddress)
        p0 == Alloc(48)
        p1 == IF tzNum < 0
              THEN Put(Put(Put(Put(p0, 8, ToUint8(255 * 3600 + tzNum - 3600, 3600)),
                               9, 255), 10, 255), 11, 255)
              ELSE Put(Put(Put(Put(p0, 8, ToUint8(tzNum, 3600)), 9, 0), 10, 0), 11, 0)
        p2 == Put(Put(p1, 12, now.year % 256), 13, now.year \div 256)
        p3 == Put(Put(Put(Put(Put(Put(p2, 14, now.minutes), 15, now.hours),
                              16, now.year % 100), 17, now.day), 18, now.date),
                  19, now.month)
        p4 == Put(Put(Put(Put(p3, 24, address[1]), 25, address[2]), 26, address[3]),
                  27, address[4])
        p5 == Put(Put(p4, 28, port % 256), 29, port \div 256)
        p6 == Put(p5, 38, 6)
        checksum == Checksum(p6)
    IN  Put(Put(p6, 32, checksum % 256), 33, checksum \div 256)

\* onListening(socket, ipAddress): the socket is bound; broadcast the
\* presence packet from it
onListening(socket, port, now) ==
    /\ \E i \in 1..Len(sockets) : sockets[i] = socket
    /\ socket \notin listening
    /\ listening' = listening \cup {socket}
    /\ last' = [ Did("onListening", << >>, << socket >>, Undef, NullDevice, Returned,
                     [ NoSend EXCEPT !.packet = PresencePacket(socketIp[socket], port, now) ])
                 EXCEPT !.now = now ]
    /\ UNCHANGED << devices, session, sockets, closed, socketIp, constructed, handshakes,
                    nsend, nrecv, ndiscover >>

\* Registered without the lookup: every MAC is taken for new
RegisteredNever(devs, key) == FALSE

\* this.devices[key] is truthy
Registered(devs, key) == key \in DOMAIN devs

\* typeof host === 'object' && (host.port || host.port === 0) && host.address
isHostObjectValid(host) == host.port /= Undef /\ host.address /= ""

\* addDevice(host, macAddress, deviceType), called as operation op; macGiven
\* is FALSE when the caller passes no macAddress, count0 is the counter the
\* Device constructor draws
addDevice(op, input, host, macGiven, macAddress, deviceType, count0) ==
    LET key == ToHex(macAddress)
        rec(o, sent) == [ Did(op, key, input, deviceType, NullDevice, o, sent)
                            EXCEPT !.host = host, !.macGiven = macGiven ]
        unchangedRegistry == UNCHANGED << devices, session, constructed, handshakes >>
    IN  IF ~macGiven
        THEN /\ last' = rec(Threw("TypeError"), NoSend)
             /\ unchangedRegistry
        ELSE IF Registered(devices, key)
        THEN /\ last' = rec(Returned, NoSend)
             /\ unchangedRegistry
        ELSE IF ~isHostObjectValid(host) \/ deviceType = Undef \/ deviceType = 0
        THEN /\ last' = rec(Threw("AssertionError"), NoSend)
             /\ unchangedRegistry
        ELSE IF \/ Lookup(unsupportedDeviceTypes, deviceType) /= ""
                \/ (deviceType >= 30000 /\ deviceType <= 31000)
                \/ ~(\/ Lookup(rmDeviceTypes, deviceType) /= ""
                     \/ Lookup(rmPlusDeviceTypes, deviceType) /= "")
        THEN /\ devices' = Store(devices, key, "Not Supported")
             /\ last' = rec(Returned, NoSend)
             /\ UNCHANGED << session, constructed, handshakes >>
        ELSE LET device == NewDevice(host, macAddress, deviceType, count0)
                 sent == authenticate(device)
             IN  /\ devices' = Store(devices, key, "Device")
                 /\ session' = Store(session, key, sent.dev)
                 /\ constructed' = Bump(constructed, key)
                 /\ handshakes' = Bump(handshakes, key)
                 /\ last' = rec(Returned, sent)

\* The MAC address onMessage assembles with its six copies
MacOf(message) ==
    LET n == Len(message)
        m1 == BufferCopy(message, Alloc(6), 0, 61, n)
        m2 == BufferCopy(message, m1, 1, 62, n)
        m3 == BufferCopy(message, m2, 2, 63, n)
        m4 == BufferCopy(message, m3, 3, 60, n)
        m5 == BufferCopy(message, m4, 4, 59, n)
    IN  BufferCopy(message, m5, 5, 58, n)

\* onMessage(message, host) on an open discovery socket
onMessage(message, host, count0) ==
    /\ Len(sockets) > 0
    /\ IF \/ CopyOutOfRange(message, 61) \/ CopyOutOfRange(message, 62)
          \/ CopyOutOfRange(message, 63)
       THEN /\ last' = Did("onMessage", << >>, message, Undef, NullDevice,
                           Threw("ERR_OUT_OF_RANGE"), NoSend)
            /\ UNCHANGED << devices, session, constructed, handshakes >>
       ELSE LET macAddress == MacOf(message)
                key == ToHex(macAddress)
                deviceType == Or8(At(message, 52), At(message, 53))
            IN  IF Registered(devices, key)
                THEN /\ last' = Did("onMessage", key, message, deviceType, NullDevice,
                                    Returned, NoSend)
                     /\ UNCHANGED << devices, session, constructed, handshakes >>
                ELSE addDevice("onMessage", message, host, TRUE, macAddress,
                               deviceType, count0)
    /\ UNCHANGED << sockets, closed, socketIp, listening, nsend, nrecv, ndiscover >>

\* addDevice called by the application
addDeviceCall(host, macGiven, macAddress, deviceType, count0) ==
    /\ addDevice("addDevice", << >>, host, macGiven, macAddress, deviceType, count0)
    /\ UNCHANGED << sockets, closed, socketIp, listening, nsend, nrecv, ndiscover >>

(***************************************************************************)
(* Device: operations on a registered session.                             *)
(***************************************************************************)
\* A datagram arrives on the socket of the session registered under key
onDeviceMessage(key, response) ==
    /\ nrecv < MaxRecv
    /\ LET d == session[key]
           o == HandleMessage(d, response)
       IN  /\ session' = [session EXCEPT ![key] = o.dev]
           /\ last' = [ Did("message", key, response, d.type, d,
                            \* a deviceReady of the session is re-emitted by Broadlink
                            [o EXCEPT !.emitted =
                                IF o.emitted /= << >> /\ o.emitted[1].name = "deviceReady"
                                THEN o.emitted \o << Event("Broadlink.deviceReady", key) >>
                                ELSE o.emitted],
                            NoSend)
                        EXCEPT !.dup = (last.op = "message" /\ last.key = key
                                        /\ last.input = response) ]
    /\ nrecv' = nrecv + 1
    /\ UNCHANGED << devices, sockets, closed, socketIp, listening, constructed, handshakes,
                    nsend, ndiscover >>

\* A command method of the session registered under key builds and sends
\* its frame
Command(op, key, sent, data) ==
    /\ nsend < MaxSends
    /\ session' = [session EXCEPT ![key] = sent.dev]
    /\ last' = Did(op, key, data, session[key].type, session[key], Returned, sent)
    /\ nsend' = nsend + 1
    /\ UNCHANGED << devices, sockets, closed, socketIp, listening, constructed, handshakes,
                    nrecv, ndiscover >>

NextDiscovery ==
    \/ \E interfaces \in InterfaceConfigs : discover(interfaces)
    \/ \E socket \in 1..Len(socketIp), port \in Ports, now \in Clocks :
           onListening(socket, port, now)

NextBroadlink ==
    \/ \E interfaces \in InterfaceConfigs : discover(interfaces)
    \/ \E message \in DiscoveryMessages, host \in Hosts, count0 \in InitCounts :
           onMessage(message, host, count0)
    \/ \E in \in CallerInputs :
           addDeviceCall(in.host, in.macGiven, MacA, in.deviceType, in.count0)

NextDevice ==
    \/ \E key \in DOMAIN session :
           \E response \in Responses(session[key]) : onDeviceMessage(key, response)
    \* the network delivers the last datagram a second time
    \/ \E key \in DOMAIN session :
           /\ last.op = "message"
           /\ last.key = key
           /\ onDeviceMessage(key, last.input)
    \/ \E key \in DOMAIN session : Command("authenticate", key, authenticate(session[key]), << >>)
    \/ \E key \in DOMAIN session : Command("checkData", key, checkData(session[key]), << >>)
    \/ \E key \in DOMAIN session, data \in CodeData :
           Command("sendData", key, sendData(session[key], data), data)
    \/ \E key \in DOMAIN session :
           Command("enterLearning", key, enterLearning(session[key]), << >>)
    \/ \E key \in DOMAIN session :
           Command("checkTemperature", key, checkTemperature(session[key]), << >>)
    \/ \E key \in DOMAIN session :
           Command("cancelLearn", key, cancelLearn(session[key]), << >>)
    \/ \E key \in DOMAIN session :
           /\ session[key].rf
           /\ Command("enterRFSweep", key, enterRFSweep(session[key]), << >>)
    \/ \E key \in DOMAIN session :
           /\ session[key].rf
           /\ Command("checkRFData", key, checkRFData(session[key]), << >>)
    \/ \E key \in DOMAIN session :
           /\ session[key].rf
           /\ Command("checkRFData2", key, checkRFData2(session[key]), << >>)

\* The state right after addDevice registered one supported device: its
\* session is constructed and its first handshake is sent
InitDevice ==
    \E host \in Hosts, deviceType \in {65593, 65574}, count0 \in InitCounts :
        LET key == ToHex(MacA)
            sent == authenticate(NewDevice(host, MacA, deviceType, count0))
        IN  /\ devices = Store(<< >>, key, "Device")
            /\ session = Store(<< >>, key, sent.dev)
            /\ sockets = << >>
            /\ closed = {}
            /\ socketIp = << >>
            /\ listening = {}
            /\ constructed = Bump(<< >>, key)
            /\ handshakes = Bump(<< >>, key)
            /\ nsend = 0
            /\ nrecv = 0
            /\ ndiscover = 0
            /\ last = [ Did("addDevice", key, << >>, deviceType, NullDevice, Returned,
                            sent) EXCEPT !.known = FALSE ]

Next == NextDiscovery \/ NextBroadlink \/ NextDevice

\* The whole program
Spec == Init /\ [][Next]_vars

\* The registry and discovery alone: no session is driven further
SpecBroadlink == Init /\ [][NextBroadlink]_vars

\* Discovery alone: the sockets and their presence packets
SpecDiscovery == Init /\ [][NextDiscovery]_vars

\* One registered session alone
SpecDevice == InitDevice /\ [][NextDevice]_vars

(***************************************************************************)
(* Properties.                                                             *)
(***************************************************************************)
\* The device types a table is written for
Codes(entries) == { entries[i][1] : i \in 1..Len(entries) }

\* Supported types: RM devices with and without RF
SupportedCodes == Codes(rmDeviceTypeEntries) \cup Codes(rmPlusDeviceTypeEntries)

\* The last operation emitted an event of this name
Emitted(name) == \E i \in 1..Len(last.emitted) : last.emitted[i].name = name

\* The last operation delivered a datagram to a session socket
Received == last.op = "message"

\* The little-endian error code at 0x22-0x23 and the command byte at 0x26
\* of the datagram the last operation was given
ErrorCode == Or8(At(last.input, 34), At(last.input, 35))
CommandByte == At(last.input, 38)

\* The last operation was a discovery response that got past the decoding
\* of its MAC address, from a MAC the registry did not hold
DiscoveredNew == last.op = "onMessage" /\ last.key /= << >> /\ ~last.known

\* C1: a MAC address never gets a second Device and never a second handshake
\* from addDevice, whatever discover() calls, discovery responses and
\* addDevice calls happen.
C1_OneSessionPerMac ==
    \A key \in DOMAIN devices \cup DOMAIN constructed \cup DOMAIN handshakes :
        /\ Count(constructed, key) <= 1
        /\ Count(handshakes, key) <= 1
        /\ key \in DOMAIN session <=> Count(constructed, key) = 1

\* A discovery response from a MAC that already has a Device was ignored
C1_Witness ==
    /\ last.op = "onMessage" /\ last.known
    /\ last.key \in DOMAIN session
    /\ last.packet = << >>
    /\ constructed[last.key] = 1 /\ handshakes[last.key] = 1
    /\ ndiscover = 2

\* C2: a discovery response from a new MAC with device type 0x2737 or 0x272a
\* yields a registered Device of that type (RF only for 0x272a) whose
\* handshake is sent; one with device type 0x2711 yields no session.
C2_ClassifiesDiscovered ==
    DiscoveredNew =>
        /\ last.type \in {10039, 10026} =>
              /\ last.key \in DOMAIN session
              /\ devices[last.key] = "Device"
              /\ session[last.key].type = last.type
              /\ session[last.key].rf = (last.type = 10026)
              /\ last.command = 101 /\ last.packet /= << >>
        /\ last.type = 10001 => last.key \notin DOMAIN session

\* C3 as stated: every response with zero error code and command 0xe9 sets
\* the key to payload bytes 0x04..0x13 and the id to bytes 0x00..0x03, keeps
\* the IV and emits deviceReady.
C3_HandshakeAlwaysRotates ==
    (Received /\ Len(last.input) >= 56 /\ ErrorCode = 0 /\ CommandByte = 233) =>
        /\ Len(last.payload) >= 20
        /\ session[last.key].key = SubSeq(last.payload, 5, 20)
        /\ session[last.key].id = SubSeq(last.payload, 1, 4)
        /\ session[last.key].iv = DefaultIV
        /\ Emitted("deviceReady")

\* C3 amended: a response with zero error code and command 0xe9 whose body
\* decrypts to a payload of at least 0x14 bytes sets the key to payload bytes
\* 0x04..0x13 and the id to bytes 0x00..0x03 and emits deviceReady; the IV of
\* every session is the default IV in every state.
C3_HandshakeRotates ==
    /\ \A key \in DOMAIN session : session[key].iv = DefaultIV
    /\ (/\ Received /\ Len(last.input) >= 56 /\ ErrorCode = 0 /\ CommandByte = 233
        /\ Len(last.payload) >= 20) =>
          /\ session[last.key].key = SubSeq(last.payload, 5, 20)
          /\ session[last.key].id = SubSeq(last.payload, 1, 4)
          /\ last.emitted = << Event("deviceReady", << >>),
                               Event("Broadlink.deviceReady", last.key) >>

\* A handshake response replaced the default key and the zero id
C3_Witness ==
    /\ Received /\ ErrorCode = 0 /\ CommandByte = 233 /\ Len(last.payload) >= 20
    /\ last.before.key = DefaultKey /\ last.before.id = <<0, 0, 0, 0>>
    /\ session[last.key].key = KeyB /\ session[last.key].id = <<2, 0, 0, 128>>

\* C4: a response with command 0xe9 whose decrypted payload is shorter than
\* 0x14 bytes (an empty one included) emits no deviceReady.
C4_ShortHandshakeNotReady ==
    (/\ Received /\ Len(last.input) >= 56 /\ ErrorCode = 0 /\ CommandByte = 233
     /\ Len(last.payload) < 20) =>
        ~Emitted("deviceReady")

\* C5: a datagram whose error code is nonzero is not decrypted, emits
\* nothing, sends nothing and leaves the session (key, id, IV, counter) as
\* it was.
C5_ErrorCodeDrops ==
    (Received /\ ErrorCode /= 0) =>
        /\ ~last.decrypted
        /\ last.emitted = << >>
        /\ last.packet = << >>
        /\ session[last.key] = last.before

\* A handshake response with a nonzero error code was handled
C5_Witness ==
    /\ Received /\ Len(last.input) > 56 /\ ErrorCode = 256 /\ CommandByte = 233
    /\ session[last.key].key = DefaultKey

\* C6: a datagram shorter than 0x38 bytes is not decrypted, emits nothing
\* and leaves the key and the id of the session as they were.
C6_ShortDatagramDropped ==
    (Received /\ Len(last.input) < 56) =>
        /\ ~last.decrypted
        /\ last.emitted = << >>
        /\ session[last.key].key = last.before.key
        /\ session[last.key].id = last.before.id

\* A 0x37-byte datagram with zero error code and command byte 0xe9 was handled
C6_Witness ==
    /\ Received /\ Len(last.input) = 55 /\ ErrorCode = 0 /\ CommandByte = 233
    /\ last.thrown = "ERR_OUT_OF_RANGE"

\* C7: a discovery response from a new MAC whose device type is not a
\* supported one creates no session, sends nothing, raises nothing and
\* leaves the MAC registered as "Not Supported".
C7_UnsupportedInert ==
    (DiscoveredNew /\ last.type \notin SupportedCodes) =>
        /\ last.thrown = ""
        /\ last.key \in DOMAIN devices
        /\ devices[last.key] = "Not Supported"
        /\ last.key \notin DOMAIN session
        /\ last.packet = << >>

\* C8: a session has the three RF operations exactly when its device type
\* is one of the RF-capable types.
C8_RFOnlyForRFTypes ==
    \A key \in DOMAIN session :
        session[key].rf <=> session[key].type \in Codes(rmPlusDeviceTypeEntries)

\* C9: a frame built by sendPacket from a payload of whole blocks, fed to
\* the message handler of the same session, has error code 0 and decrypts
\* to that payload.
C9_RoundTrip ==
    (last.packet /= << >> /\ Len(last.plain) % BlockSize = 0) =>
        LET o == HandleMessage(session[last.key], last.packet)
        IN  /\ Or8(At(last.packet, 34), At(last.packet, 35)) = 0
            /\ o.decrypted
            /\ o.thrown = ""
            /\ o.payload = last.plain

\* A command frame of a whole block was sent under a rotated key
C9_Witness ==
    /\ last.op = "sendData" /\ Len(last.plain) = 16
    /\ session[last.key].key = KeyA
    /\ last.before.key = KeyA

\* C10: every frame with opcode 0x65 carries the authenticate() payload
\* encrypted with the default key and IV.
C10_HandshakeUsesDefaultKey ==
    (last.packet /= << >> /\ last.command = 101) =>
        SubSeq(last.packet, 57, Len(last.packet))
            = CipherUpdate(DefaultKey, DefaultIV, AuthPayload)

\* The open discovery sockets, and all the discovery sockets ever created
OpenSockets == { sockets[i] : i \in 1..Len(sockets) }
CreatedSockets == 1..Len(socketIp)

\* C11: after any sequence of discover() calls every discovery socket of an
\* earlier call is closed, and the open sockets are exactly those the latest
\* call created: one per non-internal IPv4 address, bound to that address.
C11_RediscoveryTearsDown ==
    /\ closed = CreatedSockets \ OpenSockets
    /\ \A i, j \in 1..Len(sockets) : sockets[i] = sockets[j] => i = j
    /\ last.op = "discover" =>
          LET interfaces == last.input
              usable == { j \in 1..Len(interfaces) :
                              /\ interfaces[j].family = "IPv4"
                              /\ interfaces[j].internal = FALSE }
          IN  /\ Len(sockets) = Cardinality(usable)
              /\ { socketIp[s] : s \in OpenSockets }
                     = { interfaces[j].address : j \in usable }
              /\ \A s \in OpenSockets : s > Len(socketIp) - Len(sockets)

\* C11 witness: a second discover() closed the two sockets of the first and
\* opened two new ones.
C11_Witness ==
    /\ last.op = "discover"
    /\ ndiscover = 2
    /\ Cardinality(closed) = 2
    /\ Len(sockets) = 2
    /\ OpenSockets \cap closed = {}

\* C12: addDevice called with an invalid host descriptor, no MAC address or
\* no device type raises an error, sends nothing and leaves the registry as
\* it was, whether or not the MAC is already registered.
C12_InvalidArgumentsRaise ==
    (/\ last.op = "addDevice"
     /\ \/ ~isHostObjectValid(last.host)
        \/ ~last.macGiven
        \/ last.type = Undef)
        => /\ last.thrown /= ""
           /\ last.packet = << >>
           /\ devices = last.registry

\* The last operation handled a response with zero error code and command
\* byte 0xee or 0xef whose body was decrypted
Dispatched ==
    /\ Received
    /\ Len(last.input) >= 56
    /\ ErrorCode = 0
    /\ CommandByte \in {238, 239}
    /\ last.thrown = ""

\* C13: for a response with zero error code and command 0xee or 0xef the
\* first decrypted payload byte decides the outcome: 1 emits one temperature
\* event of value (payload[4] * 10 + payload[5]) / 10 (21.5 for 21, 5); 4
\* emits one rawData event with the bytes after the first 4; 26 emits
\* rawRFData iff payload[4] is 1; 27 emits rawRFData2 iff payload[4] is 1;
\* any other value emits nothing. Key and id are unchanged.
C13_ResponseDispatch ==
    Dispatched =>
        LET payload == last.payload
            emitted == last.emitted
            param == IF payload = << >> THEN Undef ELSE payload[1]
            one(name) == Len(emitted) = 1 /\ emitted[1].name = name
        IN  /\ session[last.key].key = last.before.key
            /\ session[last.key].id = last.before.id
            /\ last.decrypted
            /\ param = 1 =>
                  /\ one("temperature")
                  \* the value arg[1] / arg[2] is (payload[4] * 10 + payload[5]) / 10
                  /\ emitted[1].arg[1] * 10
                         = (payload[5] * 10 + payload[6]) * emitted[1].arg[2]
                  /\ (payload[5] = 21 /\ payload[6] = 5)
                         => 2 * emitted[1].arg[1] = 43 * emitted[1].arg[2]
            /\ param = 4 =>
                  /\ one("rawData")
                  /\ emitted[1].arg = SubSeq(payload, 5, Len(payload))
            /\ param = 26 => IF payload[5] = 1 THEN one("rawRFData") ELSE emitted = << >>
            /\ param = 27 => IF payload[5] = 1 THEN one("rawRFData2") ELSE emitted = << >>
            /\ param \notin {1, 4, 26, 27} => emitted = << >>

\* C13 witness: a 0xef response carrying the temperature bytes 21, 5 was
\* handled by a session whose key a handshake had replaced.
C13_Witness ==
    /\ Dispatched
    /\ CommandByte = 239
    /\ last.before.key = KeyA
    /\ last.payload[1] = 1 /\ last.payload[5] = 21 /\ last.payload[6] = 5
    /\ Emitted("temperature")

\* C14: in the presence packet of onListening a host at UTC+2 gives bytes
\* 0x08..0x0b = 02 00 00 00 and a host at UTC-5 gives F9 FF FF FF: for a
\* whole-hour offset h, byte 0x08 is h when h >= 0 and 0xFF + h - 1 when
\* h < 0, and bytes 0x09..0x0b are 0 or 0xFF accordingly.
C14_TimezoneBytes ==
    (last.op = "onListening" /\ last.now.offset % 60 = 0) =>
        LET h == (-last.now.offset) \div 60
            packet == last.packet
        IN  SubSeq(packet, 9, 12) =
                IF h >= 0 THEN << h, 0, 0, 0 >> ELSE << 255 + h - 1, 255, 255, 255 >>

\* C15: every frame of sendPacket holds at 0x34-0x35, little-endian,
\* (0xBEAF + the sum of the plaintext payload bytes) mod 0x10000, and at
\* 0x20-0x21, little-endian, (0xBEAF + the sum of all bytes of the frame
\* with 0x20-0x21 counted as zero) mod 0x10000.
C15_ChecksumsValid ==
    (last.packet /= << >> /\ last.command /= Undef) =>
        LET packet == last.packet
            plain == last.plain
            zeroed == [i \in 1..Len(packet) |-> IF i \in {33, 34} THEN 0 ELSE packet[i]]
        IN  /\ packet[53] + 256 * packet[54]
                  = (48815 + SumBytes(plain, 1, Len(plain))) % 65536
            /\ packet[33] + 256 * packet[34]
                  = (48815 + SumBytes(zeroed, 1, Len(zeroed))) % 65536
            /\ \A i \in 1..Len(packet) : packet[i] \in 0..255

\* C15 witness: a frame was sent whose payload sum carries past 0xFFFF, under
\* a replaced key and session id.
C15_Witness ==
    /\ last.op = "sendData"
    /\ last.packet /= << >>
    /\ 48815 + SumBytes(last.plain, 1, Len(last.plain)) >= 65536
    /\ last.before.key = KeyB

\* C16: the message counter of a session is always in 0..0xFFFF; every
\* sendPacket call adds 1 modulo 0x10000 before it builds the frame, so the
\* k-th frame of a session created with counter c0 carries (c0 + k) mod
\* 0x10000, little-endian, at 0x28-0x29; handling an inbound datagram never
\* changes the counter.
C16_CounterWraps ==
    /\ \A key \in DOMAIN session : session[key].count \in 0..65535
    /\ (last.packet /= << >> /\ last.command /= Undef) =>
          LET count == session[last.key].count
              \* the handshake of addDevice is the first frame, each command
              \* since then one more
              k == nsend + 1
          IN  /\ last.packet[41] = count % 256
              /\ last.packet[42] = count \div 256
              /\ last.op /= "addDevice" => count = (last.before.count + 1) % 65536
              /\ \E c0 \in InitCounts : count = (c0 + k) % 65536
    /\ Received => session[last.key].count = last.before.count

\* C16 witness: a frame was sent with the counter at 0xFFFF, and carries 0.
C16_Witness ==
    /\ last.packet /= << >>
    /\ last.command /= Undef
    /\ last.before.count = 65535
    /\ session[last.key].count = 0
    /\ last.packet[41] = 0 /\ last.packet[42] = 0

\* The last operation changed the key or the id of its session
KeyOrIdChanged ==
    /\ last.key \in DOMAIN session
    /\ \/ session[last.key].key /= last.before.key
       \/ session[last.key].id /= last.before.id

\* The session d has the key and id of its construction
Pristine(d) == d.key = DefaultKey /\ d.id = Alloc(4)

\* C17 (as stated): over the lifetime of a session its key and id are
\* mutated exactly once, by a successful handshake: a handshake response
\* that replaces them finds the default key and the all-zero id.
C17_MutatedOnce ==
    (KeyOrIdChanged /\ Emitted("deviceReady")) => Pristine(last.before)

\* C17 (amended): key and id change only while a response with zero error
\* code and command byte 0xe9 is handled, the first or a later one; command
\* calls and every other datagram leave them alone, and a session that has
\* handled no datagram has the default key and the all-zero id.
C17_MutatedOnlyByHandshakeResponse ==
    /\ KeyOrIdChanged =>
          /\ Received
          /\ Len(last.input) >= 56
          /\ ErrorCode = 0
          /\ CommandByte = 233
    /\ nrecv = 0 => \A key \in DOMAIN session : Pristine(session[key])

\* C17 witness: a second handshake response replaced a key and id that a
\* first one had set.
C17_Witness ==
    /\ Received
    /\ CommandByte = 233
    /\ Emitted("deviceReady")
    /\ last.before.key = KeyA /\ last.before.id = <<1, 0, 0, 0>>
    /\ session[last.key].key = KeyB /\ session[last.key].id = <<2, 0, 0, 128>>

\* C18: delivering the same handshake response (zero error code, command
\* 0xe9, a body of at least 0x14 bytes) a second time leaves the session with the key and the id that the
\* first delivery left.
C18_DuplicateIdempotent ==
    (/\ Received
     /\ last.dup
     /\ Len(last.input) >= 56 + 20
     /\ ErrorCode = 0
     /\ CommandByte = 233)
        => /\ session[last.key].key = last.before.key
           /\ session[last.key].id = last.before.id

\* C19: the encrypted body of the frame of sendData(data) covers all 4 + n
\* plaintext bytes: decrypted with the key and IV of the session it gives
\* the marker 02 00 00 00 followed by every byte of data.
C19_SendDataWhole ==
    last.op = "sendData" =>
        LET data == last.input
            body == SubSeq(last.packet, 57, Len(last.packet))
            recovered == DecipherUpdate(last.before.key, last.before.iv, body)
        IN  /\ Len(recovered) >= 4 + Len(data)
            /\ SubSeq(recovered, 1, 4 + Len(data)) = <<2, 0, 0, 0>> \o data

\* C20: no inbound datagram on a session socket, whatever its length and
\* content, makes the message handler raise an exception; a datagram that is
\* too short or whose body is not a whole number of 16-byte blocks is
\* dropped with the session unchanged.
C20_HandlerNeverRaises ==
    Received =>
        /\ last.thrown = ""
        /\ (\/ Len(last.input) < 56
            \/ (Len(last.input) - 56) % BlockSize /= 0)
               => session[last.key] = last.before

====
